---- MODULE Spec2Model ----
(***************************************************************************)
(* ExamSys SAQ feedback extractor.                                         *)
(*                                                                         *)
(* Two programs are modelled:                                              *)
(*   - the GUI tool (src/examsys_gui.py): choose_and_extract, which calls  *)
(*     extract_feedback and parse_summary_from_log, and shutdown_server;   *)
(*   - the standalone script (src/exam_sys_saq_extraction.py): main.       *)
(*                                                                         *)
(* Both are asyncio coroutines: one action of the model is the code        *)
(* between two awaits.  The portal's pages are inputs: what a page shows   *)
(* is drawn with \E when the code looks at it.  Every awaited Playwright   *)
(* call may raise; it does raise once the browser context is closed.       *)
(***************************************************************************)
EXTENDS Integers, Sequences, FiniteSets, TLC

\* ---------------------------------------------------------------- bounds
MaxQ == 2        \* question links on the report page: 0..MaxQ
MaxBlocks == 2   \* student blocks on a question page: 0..MaxBlocks
MaxIncomplete == 1  \* blocks of a run that lack one or more elements
MaxMarkLen == 3  \* characters of a mark text given to parse_mark_to_decimal
MaxParts == 3    \* parts an href given to absolutize is put together from

\* ------------------------------------------------------- pages (inputs)
\* The five elements a student block may contain (selectors of lines 49-53).
Fields == {"label", "id", "answer", "mark", "comment"}

\* A block as rendered: the set of its elements that are present.  The
\* shapes drawn are: everything present, exactly one element absent, and
\* everything absent.
BlockShapes == {s \in SUBSET Fields : Cardinality(s) \in {0, 4, 5}}

\* Text of the elements that are present.
LabelText == "Jo Bloggs"
IdText == "u1234"
AnswerText == "an answer"
CommentText == "well done"

\* Text of a selected mark option: a sequence of characters.
MarkTexts == {<<"2", "½">>}

\* ------------------------------------------------------ mark normaliser
Digits == {"0", "1", "2", "3", "4", "5", "6", "7", "8", "9"}

DigitVal(c) == CASE c = "0" -> 0 [] c = "1" -> 1 [] c = "2" -> 2 [] c = "3" -> 3
                 [] c = "4" -> 4 [] c = "5" -> 5 [] c = "6" -> 6 [] c = "7" -> 7
                 [] c = "8" -> 8 [] c = "9" -> 9

RECURSIVE LStrip(_)
LStrip(s) == IF s # <<>> /\ Head(s) = " " THEN LStrip(Tail(s)) ELSE s

RECURSIVE RStrip(_)
RStrip(s) == IF s # <<>> /\ s[Len(s)] = " " THEN RStrip(SubSeq(s, 1, Len(s) - 1)) ELSE s

\* str.strip() (the only whitespace of the alphabet is the space)
Strip(s) == RStrip(LStrip(s))

\* str.replace(ch, "")
Remove(s, ch) == SelectSeq(s, LAMBDA c : c # ch)

IsDigits(s) == s # <<>> /\ \A i \in 1..Len(s) : s[i] \in Digits

RECURSIVE IntOf(_)
IntOf(s) == IF s = <<>> THEN 0 ELSE 10 * IntOf(SubSeq(s, 1, Len(s) - 1)) + DigitVal(s[Len(s)])

RECURSIVE Gcd(_, _)
Gcd(a, b) == IF b = 0 THEN a ELSE Gcd(b, a % b)

RECURSIVE DigitsOf(_)
DigitsOf(n) == IF n < 10 THEN <<ToString(n)>>
               ELSE DigitsOf(n \div 10) \o <<ToString(n % 10)>>

\* str(x) of the float x = num / den: the characters Python prints.  A whole
\* value prints as "n.0" and a half as "n.5"; any other quotient is
\* represented by the one token float(num/den) in lowest terms, which no
\* text of the alphabet equals.
FloatStr(num, den) ==
    LET n == num \div Gcd(num, den)
        d == den \div Gcd(num, den)
    IN  IF d = 1 THEN DigitsOf(n) \o <<".", "0">>
        ELSE IF d = 2 THEN DigitsOf(n \div 2) \o <<".", "5">>
        ELSE <<"float(" \o ToString(n) \o "/" \o ToString(d) \o ")">>

RECURSIVE Join(_)
Join(s) == IF s = <<>> THEN "" ELSE Head(s) \o Join(Tail(s))

\* float(base) accepts digits with at most one decimal point (and at least
\* one digit) and raises ValueError for any other text of the alphabet
\* (digits, point, glyph, slash, space, letters).
IsFloatLiteral(b) ==
    \/ IsDigits(b)
    \/ IsDigits(Remove(b, ".")) /\ Len(b) = Len(Remove(b, ".")) + 1

DotAt(b) == CHOOSE i \in 1..Len(b) : b[i] = "."

\* str(float(base) + 0.5): for a whole base the digits of base + 0.5; for a
\* base with a fractional part, the one token of that sum.
PlusHalf(b) ==
    IF IsDigits(b) THEN FloatStr(2 * IntOf(b) + 1, 2)
    ELSE IF Remove(SubSeq(b, DotAt(b) + 1, Len(b)), "0") = <<>>
    THEN FloatStr(2 * IntOf(SubSeq(b, 1, DotAt(b) - 1)) + 1, 2)
    ELSE <<"float(" \o Join(b) \o ")+0.5">>

\* (mutant) the fraction pattern never matches
NoFraction(s) == FALSE

\* re.fullmatch(r"\d+\s*/\s*\d+", s)
IsFraction(s) ==
    \E i \in 1..Len(s) :
        /\ s[i] = "/"
        /\ IsDigits(RStrip(SubSeq(s, 1, i - 1)))
        /\ IsDigits(LStrip(SubSeq(s, i + 1, Len(s))))

SlashAt(s) == CHOOSE i \in 1..Len(s) : s[i] = "/"

\* parse_mark_to_decimal.  An exception of float(base) is caught by the
\* except clause, which returns s.
parse_mark_to_decimal(mark) ==
    IF mark = <<>> THEN <<>>
    ELSE LET s == Strip(mark)
             base == Remove(Strip(Remove(s, "½")), " ")
         IN  IF \E i \in 1..Len(s) : s[i] = "½"
             THEN IF s = <<"½">> THEN <<"0", ".", "5">>
                  ELSE IF Strip(Remove(s, "½")) = <<>> THEN <<"0", ".", "5">>
                  ELSE IF IsFloatLiteral(base) THEN PlusHalf(base)
                  ELSE s
             ELSE IF IsFraction(s)
                       /\ IntOf(LStrip(SubSeq(s, SlashAt(s) + 1, Len(s)))) # 0
                  THEN FloatStr(IntOf(RStrip(SubSeq(s, 1, SlashAt(s) - 1))),
                                IntOf(LStrip(SubSeq(s, SlashAt(s) + 1, Len(s)))))
             ELSE s

\* --------------------------------------------------------- URL resolver
\* EXAMSYS_BASE, character by character
EXAMSYS_BASE == <<"h", "t", "t", "p", "s", ":", "/", "/", "e", "x", "a", "m", "s", "y", "s", ".", "n", "o", "t", "t", "i", "n", "g", "h", "a", "m", ".", "a", "c", ".", "u", "k">>

\* str.startswith(prefix)
StartsWith(s, prefix) == Len(s) >= Len(prefix) /\ SubSeq(s, 1, Len(prefix)) = prefix

\* str.lstrip(chars): every leading character that is in chars is removed
RECURSIVE LStripChars(_, _)
LStripChars(s, cs) == IF s # <<>> /\ Head(s) \in cs THEN LStripChars(Tail(s), cs) ELSE s

\* str.rstrip(chars)
RECURSIVE RStripChars(_, _)
RStripChars(s, cs) ==
    IF s # <<>> /\ s[Len(s)] \in cs THEN RStripChars(SubSeq(s, 1, Len(s) - 1), cs) ELSE s

\* absolutize(href, base)
absolutize(href, base) ==
    IF href = <<>> THEN <<>>
    ELSE LET h == Strip(href)
             b == RStripChars(base, {"/"})
         IN  IF StartsWith(h, <<"h", "t", "t", "p">>) THEN h
             ELSE IF StartsWith(h, <<"/">>) THEN b \o h
             ELSE IF StartsWith(h, <<".", ".", "/">>)
                  THEN b \o <<"/", "r", "e", "p", "o", "r", "t", "s", "/">> \o LStripChars(h, {".", "/"})
             ELSE IF StartsWith(h, <<"r", "e", "p", "o", "r", "t", "s", "/">>) THEN b \o <<"/">> \o h
             ELSE IF StartsWith(h, <<"t", "e", "x", "t", "b", "o", "x", "_", "m", "a", "r", "k", "i", "n", "g">>) THEN b \o <<"/", "r", "e", "p", "o", "r", "t", "s", "/">> \o h
             ELSE b \o <<"/">> \o LStripChars(h, {"/"})

\* The hrefs given to absolutize: up to MaxParts of these parts, one after
\* the other.
HrefParts == {<<"h", "t", "t", "p", ":">>,
              <<"f", "t", "p", ":">>,
              <<"/">>, <<".">>, <<".", ".", "/">>, <<"p">>, <<" ">>,
              <<"r", "e", "p", "o", "r", "t", "s", "/">>,
              <<"t", "e", "x", "t", "b", "o", "x", "_", "m", "a", "r", "k", "i", "n", "g">>}

RECURSIVE HrefsOf(_)
HrefsOf(n) == IF n = 0 THEN {<<>>}
              ELSE LET shorter == HrefsOf(n - 1)
                   IN  shorter \cup {x \o part : x \in shorter, part \in HrefParts}

\* The bases given to absolutize: the default, the default with a trailing
\* slash, and a base of another scheme.
Bases == {EXAMSYS_BASE, EXAMSYS_BASE \o <<"/">>, <<"f", "t", "p", ":", "/", "/", "h">>}

\* The mark texts given to parse_mark_to_decimal: every text of up to
\* MaxMarkLen characters of this alphabet.
MarkChars == {"0", "2", "3", "½", "/", " ", "a", "."}
MarkInputs == UNION {[1..n -> MarkChars] : n \in 0..MaxMarkLen}

\* ------------------------------------------------------------ the CSV
\* writer.writerow of the header (GUI)
Header == <<"question_number", "student_id", "student_label",
            "mark", "comment", "student_answer">>

\* The five field reads of one block (GUI), each with its fallback.
LabelOf(shape, si) == IF "label" \in shape THEN LabelText
                      ELSE "Student " \o ToString(si + 1)
AnswerOf(shape) == IF "answer" \in shape THEN AnswerText ELSE ""
MarkOf(shape, mk) ==
    Join(parse_mark_to_decimal(IF "mark" \in shape THEN Strip(mk) ELSE <<>>))
CommentOf(shape) == IF "comment" \in shape THEN CommentText ELSE ""

\* b.locator(USERNAME_SEL).get_attribute("value") has no count() guard: on
\* a block without the hidden input Playwright waits for the element and
\* raises TimeoutError.
SidRaises(shape) == "id" \notin shape

\* writer.writerow([qi, sid, label, mark, com, ans]) (GUI)
Row(q, shape, si, mk) ==
    <<ToString(q), IdText, LabelOf(shape, si), MarkOf(shape, mk),
      CommentOf(shape), AnswerOf(shape)>>

\* A line handed to the csv writer: its cells, and (not part of the file)
\* the question, the block index and the block it was read from; the header
\* has blk = -1.
Line(cells, q, blk, shape) == [cells |-> cells, q |-> q, blk |-> blk, shape |-> shape]

\* (mutant) rows are put right under the header instead of at the end
WriteRowOnTop(w, line) == IF w = <<>> THEN <<line>> ELSE <<Head(w), line>> \o Tail(w)

\* csv.writer.writerow: the line is appended to the lines written so far
WriteRow(w, line) == Append(w, line)

\* (mutant) the student loop stops one block early: range(count - 1)
LastBlockEarly(i, c) == i + 2 >= c

\* for si in range(count): block i was the last one
LastBlock(i, c) == i + 1 >= c

\* (mutant) the file is left without its buffer being flushed
NoFlushOnClose(w, fl) == fl

\* f.close() on leaving the with block: the buffer is flushed, so every line
\* written is on disk.
FlushOnClose(w, fl) == Len(w)

\* ------------------------------------------------------------ the logs
L(k, n) == [k |-> k, n |-> n]

\* How each log_box line begins (the message literals of the source).
LeadGlyph(k) ==
    CASE k \in {"ExamSelected", "Found"} -> "check"
      [] k = "Row" -> "  check"
      [] k = "Processing" -> "arrow"
      [] k \in {"NoQuestions", "Failed"} -> "warning"
      [] OTHER -> "other"

\* len(re.findall(...)): the number of lines matching a pattern
CountWhere(log, P(_)) == Len(SelectSeq(log, P))

RECURSIVE MaxStudents(_)
MaxStudents(log) ==
    IF log = <<>> THEN 0
    ELSE LET m == MaxStudents(Tail(log))
             h == Head(log)
         IN  IF h.k = "FoundStudents" /\ h.n > m THEN h.n ELSE m

\* re.findall(r"^\s*check ", ...): a line that begins, after optional
\* whitespace, with the check-mark glyph.
RowPattern(e) == LeadGlyph(e.k) \in {"check", "  check"}

\* re.findall(r"^arrow Processing Question", ...)
QuestionPattern(e) == LeadGlyph(e.k) = "arrow"

\* parse_summary_from_log: <<total_questions, total_students, total_rows>>
parse_summary_from_log(log_text) ==
    <<CountWhere(log_text, QuestionPattern), MaxStudents(log_text),
      CountWhere(log_text, RowPattern)>>

\* ================================================================ state
VARIABLES
    \* --- GUI: choose_and_extract / extract_feedback (one coroutine)
    pc,             \* the await the coroutine is suspended at
    raised,         \* an exception is propagating out of choose_and_extract
    ret,            \* what extract_feedback returned: "pending", "None", "elapsed", "raised"
    pw, browser, ctx,   \* the global Playwright objects: "none", "open", "closed"
    teardown,       \* history: the closes the finally block has attempted, in order
    issued,         \* ctx when the awaited call was issued: "none", "open", "closed"
    total_qs,       \* len(question_urls)
    qi,             \* ordinal of the question being processed (1-based)
    count,          \* blocks.count() of the current question page
    si,             \* index of the next student block to read (0-based)
    f,              \* the output file handle: "none", "open", "closed"
    written,        \* lines handed to the csv writer since open(), header first
    flushed,        \* how many of them have reached the disk
    log_box,        \* log_box.value, a sequence of log lines
    app_log,        \* the run's log file (append_log)
    summary_labels, \* the summary panel
    \* --- GUI: shutdown_server (the Close App button)
    sd,             \* "idle", "ctx", "sleep"
    alive,          \* FALSE once os._exit(0) has run
    \* --- history of the GUI run (not program state)
    reportLoaded,   \* page.goto(report_url) of extract_feedback has returned
    attempted,      \* questions whose page.goto was issued
    navOk,          \* questions whose goto and wait_for_selector succeeded
    counted,        \* <<q, count>> for each question whose blocks were counted
    raisedAt,       \* the await at which extract_feedback raised, or "none"
    stopInLoop,     \* Close App was pressed while the per-question loop ran
    cause,          \* why it raised: "none", "playwright", "sink", "absent"
    incomplete,     \* blocks read so far that lacked an element (an input bound)
    \* --- standalone script: main
    m_pc,           \* the await main is suspended at
    m_page,         \* what the page shows: "none", "report", "question"
    m_links,        \* len(links)
    m_qi,           \* the loop index qi (0-based)
    m_count,        \* blocks.count()
    m_si,           \* index of the next student block to read
    m_f,            \* the output file handle: "none", "open", "closed"
    m_written,      \* lines handed to the csv writer, header first
    m_out,          \* what was printed
    m_attempted,    \* history: questions whose link was clicked
    m_navOk,        \* history: questions whose readiness wait succeeded
    m_incomplete,   \* history: blocks read so far that lacked an element
    \* --- calls of the pure functions
    p_pc,           \* "off", "call", "returned", "again"
    mark,           \* the argument of parse_mark_to_decimal
    mark_ret,       \* what it returned
    href, base,     \* the arguments of absolutize
    url,            \* absolutize(href, base)
    url2,           \* absolutize(url, base)
    \* --- GUI: the start button pressed more than once (one run per press)
    page,           \* the global page (with pw, browser, ctx): the run that created it, 0 = None
    sessions,       \* the runs whose browser session is still open
    run_pc,         \* for each run, the await its choose_and_extract is suspended at
    run_on,         \* for each run, the page its pending call was issued on (0 = none)
    run_exposed,    \* for each run, the page its examChosen function was exposed on
    out_open        \* the runs that have the output file open for writing

progVars == <<pc, issued, raised, ret, total_qs, qi, count, si, summary_labels>>
sessVars == <<pw, browser, ctx, teardown>>
fileVars == <<f, written, flushed>>
logVars == <<log_box, app_log>>
sdVars == <<sd, alive>>
histVars == <<reportLoaded, attempted, navOk, counted, raisedAt, cause, stopInLoop,
              incomplete>>
guiVars == <<progVars, sessVars, fileVars, logVars, sdVars, histVars>>
mainVars == <<m_pc, m_page, m_links, m_qi, m_count, m_si, m_f, m_written, m_out,
              m_attempted, m_navOk, m_incomplete>>
pureVars == <<p_pc, mark, mark_ret, href, base, url, url2>>
runVars == <<page, sessions, run_pc, run_on, run_exposed, out_open>>
vars == <<guiVars, mainVars, pureVars, runVars>>

\* The awaits inside the per-question loop of extract_feedback (226-298).
LoopPcs == {"progress_eval", "goto_q", "wait_sel", "count", "block", "nav_back", "sleep"}

\* What is on disk: the flushed prefix of the lines written.
DiskLines == SubSeq(written, 1, flushed)
DataRows(w) == IF Len(w) = 0 THEN <<>> ELSE Tail(w)

\* An awaited Playwright call on the page can fail at any time; it can
\* succeed only if the browser context was open when it was issued (a call
\* in flight when the context is closed may still come back).
PageResults == IF issued = "open" THEN {"ok", "fail"} ELSE {"fail"}

InitGui ==
    /\ pc = "idle" /\ issued = "none" /\ raised = FALSE /\ ret = "pending"
    /\ pw = "none" /\ browser = "none" /\ ctx = "none" /\ teardown = <<>>
    /\ total_qs = 0 /\ qi = 0 /\ count = 0 /\ si = 0
    /\ f = "none" /\ written = <<>> /\ flushed = 0
    /\ log_box = <<>> /\ app_log = <<>>
    /\ summary_labels = [questions |-> "-", students |-> "-", rows |-> "-", duration |-> "-"]
    /\ sd = "idle" /\ alive = TRUE
    /\ reportLoaded = FALSE /\ attempted = {} /\ navOk = {} /\ counted = {} /\ raisedAt = "none" /\ cause = "none"
    /\ stopInLoop = FALSE /\ incomplete = 0

\* ===================================================== choose_and_extract
\* except/finally of choose_and_extract, up to the first await of the
\* finally block: the exception is logged and re-raised, and ctx.close() is
\* issued.
WorkflowRaise(box, alog) ==
    /\ raised' = TRUE
    /\ log_box' = box
    /\ app_log' = alog \o <<L("ExcWorkflow", 0), L("Closing", 0)>>
    /\ ctx' = "closed" /\ teardown' = Append(teardown, "ctx")
    /\ pc' = "fin_ctx" /\ issued' = "closed"
    /\ UNCHANGED <<pw, browser>>

\* start() and choose_and_extract up to add_init_script: the log box is
\* reset, a new log file begun, and Playwright, browser, context and page
\* are created.
Start ==
    /\ alive /\ pc = "idle"
    /\ log_box' = <<L("Opening", 0)>>
    /\ app_log' = <<L("NewSession", 0)>>
    /\ pw' = "open" /\ browser' = "open" /\ ctx' = "open" /\ teardown' = <<>>
    /\ pc' = "init_script" /\ issued' = "open"
    /\ UNCHANGED <<raised, ret, total_qs, qi, count, si, summary_labels,
                   fileVars, sdVars, histVars>>

\* await ctx.add_init_script(...): it is outside the try, so a failure
\* leaves choose_and_extract with no cleanup.
AddInitScript ==
    /\ alive /\ pc = "init_script"
    /\ \E r \in PageResults :
        IF r = "ok"
        THEN /\ pc' = "expose" /\ issued' = ctx /\ UNCHANGED raised
        ELSE /\ pc' = "closed" /\ issued' = ctx /\ raised' = TRUE
    /\ UNCHANGED <<ret, total_qs, qi, count, si, summary_labels,
                   sessVars, fileVars, logVars, sdVars, histVars>>

\* await page.expose_function(...); then the login page is announced and
\* page.goto(EXAMSYS_BASE) is issued.
ExposeFunction ==
    /\ alive /\ pc = "expose"
    /\ \E r \in PageResults :
        IF r = "ok"
        THEN /\ pc' = "goto_login" /\ issued' = ctx
             /\ log_box' = Append(log_box, L("OpeningLogin", 0))
             /\ app_log' = Append(app_log, L("OpeningLogin", 0))
             /\ UNCHANGED <<raised, sessVars>>
        ELSE WorkflowRaise(log_box, app_log)
    /\ UNCHANGED <<ret, total_qs, qi, count, si, summary_labels,
                   fileVars, sdVars, histVars>>

\* await page.goto(EXAMSYS_BASE); then the instructions are logged and the
\* coroutine waits for the operator's choice.
GotoLogin ==
    /\ alive /\ pc = "goto_login"
    /\ \E r \in PageResults :
        IF r = "ok"
        THEN /\ pc' = "await_exam" /\ issued' = ctx
             /\ log_box' = Append(log_box, L("Instructions", 0))
             /\ app_log' = Append(app_log, L("Instructions", 0))
             /\ UNCHANGED <<raised, sessVars>>
        ELSE WorkflowRaise(log_box, app_log)
    /\ UNCHANGED <<ret, total_qs, qi, count, si, summary_labels,
                   fileVars, sdVars, histVars>>

\* chosen_url = await exam_future: the operator pressed "This is my exam".
ExamChosen ==
    /\ alive /\ pc = "await_exam" /\ ctx = "open"
    /\ pc' = "to_report" /\ issued' = ctx
    /\ log_box' = Append(log_box, L("ExamSelected", 0))
    /\ app_log' = Append(app_log, L("ExamChosen", 0))
    /\ UNCHANGED <<raised, ret, total_qs, qi, count, si, summary_labels,
                   sessVars, fileVars, sdVars, histVars>>

\* The two clicks and wait_for_load_state that reach the report page; then
\* extract_feedback is entered and page.goto(report_url) is issued.
NavigateToReport ==
    /\ alive /\ pc = "to_report"
    /\ \E r \in PageResults :
        IF r = "ok"
        THEN /\ pc' = "goto_report" /\ issued' = ctx
             /\ log_box' = log_box \o <<L("ReportPage", 0), L("Starting", 0)>>
             /\ app_log' = app_log \o <<L("ReportUrl", 0), L("Starting", 0),
                                        L("ExtractionStarted", 0), L("ReportURL", 0)>>
             /\ UNCHANGED <<raised, sessVars>>
        ELSE WorkflowRaise(log_box, app_log)
    /\ UNCHANGED <<ret, total_qs, qi, count, si, summary_labels,
                   fileVars, sdVars, histVars>>

\* The summary panel after extract_feedback returned: the counts parsed
\* from the log box, then the duration.
SummaryLabels(log_text, elapsed, old) ==
    LET r == parse_summary_from_log(log_text)
    IN  [questions |-> ToString(r[1]), students |-> ToString(r[2]),
         rows |-> ToString(r[3]),
         duration |-> IF elapsed = "None" THEN old.duration ELSE "elapsed"]

\* f"{elapsed:.1f}s" raises TypeError when extract_feedback returned None.
DurationRaises(elapsed) == elapsed = "None"

\* ======================================================= extract_feedback
\* An exception inside extract_feedback: the with block (if entered) closes
\* the file, the except clause logs and re-raises, and choose_and_extract
\* does the same.
ExtractRaise(box, alog, why) ==
    /\ WorkflowRaise(box, Append(alog, L("ExcExtraction", 0)))
    /\ ret' = "raised"
    /\ raisedAt' = pc
    /\ cause' = why
    /\ f' = IF f = "open" THEN "closed" ELSE f
    /\ flushed' = IF f = "open" THEN FlushOnClose(written, flushed) ELSE flushed
    /\ UNCHANGED <<written, total_qs, qi, count, si, summary_labels, sdVars,
                   reportLoaded, attempted, navOk, counted, stopInLoop, incomplete>>

\* The for statement: the next question is announced and its progress-bar
\* page.evaluate issued, or the loop ends, the with block closes the file
\* and the final page.evaluate is issued.
NextIteration(box, alog) ==
    /\ IF qi < total_qs
       THEN /\ qi' = qi + 1
            /\ log_box' = Append(box, L("Processing", qi + 1))
            /\ app_log' = Append(alog, L("Processing", qi + 1))
            /\ pc' = "progress_eval" /\ issued' = ctx
            /\ UNCHANGED fileVars
       ELSE /\ f' = "closed"
            /\ flushed' = FlushOnClose(written, flushed)
            /\ log_box' = box /\ app_log' = alog
            /\ pc' = "complete_eval" /\ issued' = ctx
            /\ UNCHANGED <<qi, written>>
    /\ UNCHANGED <<raised, ret, total_qs, count, si, summary_labels,
                   sessVars, sdVars, histVars>>

\* (mutant) no try/except around the navigation: the failure propagates
SkipRaises(box, alog) == ExtractRaise(box, alog, "playwright")

\* except Exception as e: the failure to open the question is logged and
\* the loop continues with the next question.
Skip(box, alog) ==
    NextIteration(Append(box, L("Failed", qi)), Append(alog, L("Failed", qi)))

\* await page.goto(report_url)
GotoReport ==
    /\ alive /\ pc = "goto_report"
    /\ \E r \in PageResults :
        IF r = "ok"
        THEN /\ pc' = "discover" /\ issued' = ctx
             /\ reportLoaded' = TRUE
             /\ UNCHANGED <<raised, ret, total_qs, qi, count, si, summary_labels,
                            sessVars, fileVars, logVars, sdVars,
                            attempted, navOk, counted, raisedAt, cause, stopInLoop,
                            incomplete>>
        ELSE ExtractRaise(log_box, app_log, "playwright")

\* extract_feedback returned `elapsed` to choose_and_extract: the summary
\* panel is filled in, and the finally block is entered (ctx.close() issued)
\* either normally or with the TypeError of the duration label propagating.
Return(box, alog, elapsed) ==
    /\ ret' = elapsed
    /\ summary_labels' = SummaryLabels(box, elapsed, summary_labels)
    /\ IF DurationRaises(elapsed)
       THEN WorkflowRaise(box, alog)
       ELSE /\ log_box' = box
            /\ app_log' = alog \o <<L("SummaryUpdated", 0), L("Closing", 0)>>
            /\ ctx' = "closed" /\ teardown' = Append(teardown, "ctx")
            /\ pc' = "fin_ctx" /\ issued' = "closed"
            /\ UNCHANGED <<raised, pw, browser>>

\* await page.title() and page.eval_on_selector_all(QUESTION_LINK_SEL, ...):
\* the report page shows n question links.  With none, "No questions found"
\* is logged and None returned; otherwise the first page.evaluate is issued.
Discover ==
    /\ alive /\ pc = "discover"
    /\ \E r \in PageResults, n \in 0..MaxQ :
        IF r = "fail" THEN ExtractRaise(log_box, app_log, "playwright")
        ELSE IF n = 0
        THEN /\ Return(log_box \o <<L("PageTitle", 0), L("NoQuestions", 0)>>,
                       app_log \o <<L("PageTitle", 0), L("NoQuestions", 0)>>, "None")
             /\ UNCHANGED <<total_qs, qi, count, si, fileVars, sdVars, histVars>>
        ELSE /\ total_qs' = n
             /\ log_box' = log_box \o <<L("PageTitle", 0), L("Found", n)>>
             /\ app_log' = app_log \o <<L("PageTitle", 0), L("Found", n)>>
             /\ pc' = "store_progress" /\ issued' = ctx
             /\ UNCHANGED <<raised, ret, qi, count, si, summary_labels,
                            sessVars, fileVars, sdVars, histVars>>

\* await page.evaluate (localStorage totals); then the output file is
\* opened for writing (truncated), the header written, and the first
\* iteration begun.
StoreProgress ==
    /\ alive /\ pc = "store_progress"
    /\ \E r \in PageResults, opened \in BOOLEAN :
        IF r = "fail" \/ ~opened
        THEN ExtractRaise(log_box, app_log, IF r = "fail" THEN "playwright" ELSE "sink")
        ELSE /\ f' = "open"
             /\ written' = WriteRow(<<>>, Line(Header, 0, -1, {}))
             /\ flushed' = 0
             /\ qi' = 1
             /\ log_box' = Append(log_box, L("Processing", 1))
             /\ app_log' = Append(app_log, L("Processing", 1))
             /\ pc' = "progress_eval" /\ issued' = ctx
             /\ UNCHANGED <<raised, ret, total_qs, count, si, summary_labels,
                            sessVars, sdVars, histVars>>

\* await page.evaluate (progress bar); then page.goto(qurl) is issued.
ProgressEval ==
    /\ alive /\ pc = "progress_eval"
    /\ \E r \in PageResults :
        IF r = "fail" THEN ExtractRaise(log_box, app_log, "playwright")
        ELSE /\ pc' = "goto_q" /\ issued' = ctx
             /\ attempted' = attempted \cup {qi}
             /\ UNCHANGED <<raised, ret, total_qs, qi, count, si, summary_labels,
                            sessVars, fileVars, logVars, sdVars,
                            reportLoaded, navOk, counted, raisedAt, cause, stopInLoop,
                            incomplete>>

\* await page.goto(qurl) inside the try: a failure is logged and the loop
\* continues with the next question.
GotoQuestion ==
    /\ alive /\ pc = "goto_q"
    /\ \E r \in PageResults :
        IF r = "fail"
        THEN Skip(log_box, app_log)
        ELSE /\ pc' = "wait_sel" /\ issued' = ctx
             /\ UNCHANGED <<raised, ret, total_qs, qi, count, si, summary_labels,
                            sessVars, fileVars, logVars, sdVars, histVars>>

\* await page.wait_for_selector(STUDENT_BLOCKS_SEL, timeout=10000) inside
\* the try: a timeout (no student block appeared) is logged and the loop
\* continues; otherwise blocks.count() is issued.
WaitSelector ==
    /\ alive /\ pc = "wait_sel"
    /\ \E r \in PageResults :
        IF r = "fail"
        THEN Skip(log_box, app_log)
        ELSE /\ pc' = "count" /\ issued' = ctx
             /\ navOk' = navOk \cup {qi}
             /\ UNCHANGED <<raised, ret, total_qs, qi, count, si, summary_labels,
                            sessVars, fileVars, logVars, sdVars,
                            reportLoaded, attempted, counted, raisedAt, cause,
                            stopInLoop, incomplete>>

\* count = await blocks.count(): at least one block is there, since the
\* readiness wait saw one.
CountBlocks ==
    /\ alive /\ pc = "count"
    /\ \E r \in PageResults, c \in 1..MaxBlocks :
        IF r = "fail" THEN ExtractRaise(log_box, app_log, "playwright")
        ELSE /\ count' = c /\ si' = 0
             /\ counted' = counted \cup {<<qi, c>>}
             /\ log_box' = Append(log_box, L("FoundStudents", c))
             /\ app_log' = Append(app_log, L("FoundStudents", c))
             /\ pc' = "block" /\ issued' = ctx
             /\ UNCHANGED <<raised, ret, total_qs, qi, summary_labels,
                            sessVars, fileVars, sdVars,
                            reportLoaded, attempted, navOk, raisedAt, cause,
                            stopInLoop, incomplete>>

\* One pass of the student loop: the five field reads of block si, the row
\* written and logged.  The output buffer may reach the disk at any write.
\* After the last block page.goto(report_url) is issued.
ReadBlock ==
    /\ alive /\ pc = "block"
    /\ \E r \in PageResults, shape \in BlockShapes, mk \in MarkTexts,
          wrote \in BOOLEAN, fl \in BOOLEAN :
        /\ shape = Fields \/ incomplete < MaxIncomplete
        /\ IF r = "fail" \/ SidRaises(shape) \/ ~wrote
           THEN ExtractRaise(log_box, app_log,
                             IF r = "fail" THEN "playwright"
                             ELSE IF SidRaises(shape) THEN "absent" ELSE "sink")
           ELSE
             /\ incomplete' = IF shape = Fields THEN incomplete ELSE incomplete + 1
             /\ written' = WriteRow(written, Line(Row(qi, shape, si, mk), qi, si, shape))
             /\ flushed' = IF fl THEN Len(written') ELSE flushed
             /\ log_box' = Append(log_box, L("Row", qi))
             /\ app_log' = Append(app_log, L("Row", qi))
             /\ si' = si + 1
             /\ pc' = IF LastBlock(si, count) THEN "nav_back" ELSE "block"
             /\ issued' = ctx
             /\ UNCHANGED <<raised, ret, total_qs, qi, count, summary_labels, f,
                            sessVars, sdVars,
                            reportLoaded, attempted, navOk, counted, raisedAt, cause,
                            stopInLoop>>

\* await page.goto(report_url) after the blocks; then asyncio.sleep.
NavBack ==
    /\ alive /\ pc = "nav_back"
    /\ \E r \in PageResults :
        IF r = "fail" THEN ExtractRaise(log_box, app_log, "playwright")
        ELSE /\ pc' = "sleep" /\ issued' = ctx
             /\ UNCHANGED <<raised, ret, total_qs, qi, count, si, summary_labels,
                            sessVars, fileVars, logVars, sdVars, histVars>>

\* await asyncio.sleep(0.25); then the next iteration.
Sleep ==
    /\ alive /\ pc = "sleep"
    /\ NextIteration(log_box, app_log)

\* await page.evaluate ("Extraction Complete"); then Done is logged and
\* elapsed returned.
CompleteEval ==
    /\ alive /\ pc = "complete_eval"
    /\ \E r \in PageResults :
        IF r = "fail" THEN ExtractRaise(log_box, app_log, "playwright")
        ELSE /\ Return(Append(log_box, L("Done", 0)),
                       app_log \o <<L("Done", 0), L("Elapsed", 0)>>, "elapsed")
             /\ UNCHANGED <<total_qs, qi, count, si, fileVars, sdVars, histVars>>

\* ------------------------------------------- finally of choose_and_extract
\* await ctx.close() returned or raised (logged); browser.close() is issued.
FinallyCtx ==
    /\ alive /\ pc = "fin_ctx"
    /\ \E r \in {"ok", "fail"} :
        app_log' = IF r = "ok" THEN app_log ELSE Append(app_log, L("ErrClosingContext", 0))
    /\ browser' = "closed" /\ teardown' = Append(teardown, "browser")
    /\ pc' = "fin_browser" /\ issued' = ctx
    /\ UNCHANGED <<raised, ret, total_qs, qi, count, si, summary_labels,
                   pw, ctx, fileVars, log_box, sdVars, histVars>>

\* await browser.close() returned or raised (logged); pw.stop() is issued.
FinallyBrowser ==
    /\ alive /\ pc = "fin_browser"
    /\ \E r \in {"ok", "fail"} :
        app_log' = IF r = "ok" THEN app_log ELSE Append(app_log, L("ErrClosingBrowser", 0))
    /\ pw' = "closed" /\ teardown' = Append(teardown, "pw")
    /\ pc' = "fin_pw" /\ issued' = ctx
    /\ UNCHANGED <<raised, ret, total_qs, qi, count, si, summary_labels,
                   browser, ctx, fileVars, log_box, sdVars, histVars>>

\* await pw.stop() returned or raised (logged); the closing messages.
FinallyPw ==
    /\ alive /\ pc = "fin_pw"
    /\ \E r \in {"ok", "fail"} :
        app_log' = (IF r = "ok" THEN app_log ELSE Append(app_log, L("ErrStopping", 0)))
                      \o <<L("SessionClosed", 0)>>
    /\ log_box' = Append(log_box, L("SessionClosed", 0))
    /\ pc' = "closed" /\ issued' = ctx
    /\ UNCHANGED <<raised, ret, total_qs, qi, count, si, summary_labels,
                   sessVars, fileVars, sdVars, histVars>>

\* ======================================================== shutdown_server
\* (mutant) Close App leaves the browser context open
ShutdownRequestKeepsContext ==
    /\ alive /\ sd = "idle"
    /\ app_log' = Append(app_log, L("ShutdownRequested", 0))
    /\ sd' = IF ctx = "none" THEN "sleep" ELSE "ctx"
    /\ stopInLoop' = (stopInLoop \/ pc \in LoopPcs)
    /\ UNCHANGED <<progVars, sessVars, fileVars, log_box, alive,
                   reportLoaded, attempted, navOk, counted, raisedAt, cause, incomplete>>

\* Close App pressed: the request is logged and, if a context exists,
\* ctx.close() is issued.
ShutdownRequest ==
    /\ alive /\ sd = "idle"
    /\ app_log' = Append(app_log, L("ShutdownRequested", 0))
    /\ IF ctx = "none"
       THEN sd' = "sleep" /\ UNCHANGED ctx
       ELSE sd' = "ctx" /\ ctx' = "closed"
    /\ stopInLoop' = (stopInLoop \/ pc \in LoopPcs)
    /\ UNCHANGED <<progVars, pw, browser, teardown, fileVars, log_box, alive,
                   reportLoaded, attempted, navOk, counted, raisedAt, cause, incomplete>>

\* await ctx.close() is over (an error is logged); browser.close() and
\* pw.stop() are awaited in turn; asyncio.sleep(0.3) begins.
ShutdownClose ==
    /\ alive /\ sd = "ctx"
    /\ browser' = "closed" /\ pw' = "closed"
    /\ sd' = "sleep"
    /\ UNCHANGED <<progVars, ctx, teardown, fileVars, logVars, alive, histVars>>

\* os._exit(0): the process ends at once; an open file is not closed and
\* its buffer never reaches the disk.
ShutdownExit ==
    /\ alive /\ sd = "sleep"
    /\ alive' = FALSE
    /\ UNCHANGED <<progVars, sessVars, fileVars, logVars, sd, histVars>>

\* ================================================= standalone script: main
InitMain ==
    /\ m_pc = "start" /\ m_page = "none" /\ m_links = 0 /\ m_qi = 0
    /\ m_count = 0 /\ m_si = 0 /\ m_f = "none" /\ m_written = <<>>
    /\ m_out = <<>> /\ m_attempted = {} /\ m_navOk = {} /\ m_incomplete = 0

\* writer.writerow of the header (script)
MainHeader == <<"question_number", "student_id", "student_label",
                "student_answer", "mark", "comment">>

\* The five field reads of one block (script): each inside its own
\* try/except, so an absent element (the read times out and raises) gives
\* the fallback.  The mark is the option's text, stripped.
MainRow(q, shape, idx, mk) ==
    <<ToString(q),
      IF "id" \in shape THEN IdText ELSE "",
      IF "label" \in shape THEN LabelText ELSE "Student " \o ToString(idx + 1),
      IF "answer" \in shape THEN AnswerText ELSE "",
      IF "mark" \in shape THEN Join(Strip(mk)) ELSE "",
      IF "comment" \in shape THEN CommentText ELSE "">>

\* len(await page.locator(QUESTION_LINK_SEL).all()) on the page shown: the
\* report page lists the question links, a question page has none.
LinksOn(shown, n) == IF shown = "report" THEN n ELSE 0

\* An exception leaves main: the with block (if entered) closes the file.
MainRaise ==
    /\ m_pc' = "raised"
    /\ m_f' = IF m_f = "open" THEN "closed" ELSE m_f
    /\ UNCHANGED <<m_page, m_links, m_qi, m_count, m_si, m_written, m_out,
                   m_attempted, m_navOk, m_incomplete>>

\* The for statement of main: the next index is announced and the links are
\* looked up again, or the loop is over and the file closed.
MainNextIteration(out) ==
    /\ IF m_qi + 1 < m_links
       THEN /\ m_qi' = m_qi + 1
            /\ m_out' = Append(out, L("Processing", m_qi + 2))
            /\ m_pc' = "cur_links"
            /\ UNCHANGED m_f
       ELSE /\ m_f' = "closed"
            /\ m_out' = out
            /\ m_pc' = "close_browser"
            /\ UNCHANGED m_qi
    /\ UNCHANGED <<m_links, m_count, m_si, m_written, m_attempted, m_navOk,
                   m_incomplete>>

\* Browser, context and page are created, the operator logs in if needed,
\* and page.goto(REPORT_URL) returns.
MainGotoReport ==
    /\ m_pc = "start"
    /\ \E r \in {"ok", "fail"} :
        IF r = "fail" THEN MainRaise
        ELSE /\ m_pc' = "discover" /\ m_page' = "report"
             /\ UNCHANGED <<m_links, m_qi, m_count, m_si, m_f, m_written, m_out,
                            m_attempted, m_navOk, m_incomplete>>

\* await page.title() and locator(QUESTION_LINK_SEL).all(): with no link the
\* browser is closed and main returns; otherwise the output file is opened,
\* the header written and the first iteration begun.
MainDiscover ==
    /\ m_pc = "discover"
    /\ \E r \in {"ok", "fail"}, n \in 0..MaxQ, opened \in BOOLEAN :
        IF r = "fail" THEN MainRaise
        ELSE IF n = 0
        THEN /\ m_out' = m_out \o <<L("PageTitle", 0), L("Found", 0)>>
             /\ m_pc' = "close_browser"
             /\ UNCHANGED <<m_page, m_links, m_qi, m_count, m_si, m_f, m_written,
                            m_attempted, m_navOk, m_incomplete>>
        ELSE IF ~opened
        THEN /\ m_out' = m_out \o <<L("PageTitle", 0), L("Found", n)>>
             /\ m_pc' = "raised"
             /\ UNCHANGED <<m_page, m_links, m_qi, m_count, m_si, m_f, m_written,
                            m_attempted, m_navOk, m_incomplete>>
        ELSE /\ m_links' = n
             /\ m_f' = "open"
             /\ m_written' = WriteRow(<<>>, Line(MainHeader, 0, -1, {}))
             /\ m_qi' = 0
             /\ m_out' = m_out \o <<L("PageTitle", 0), L("Found", n), L("Processing", 1)>>
             /\ m_pc' = "cur_links"
             /\ UNCHANGED <<m_page, m_count, m_si, m_attempted, m_navOk, m_incomplete>>

\* cur_links = await ...all(): if the page shown has no link of index qi the
\* loop is left (break); otherwise the link is clicked.
MainCurLinks ==
    /\ m_pc = "cur_links"
    /\ \E r \in {"ok", "fail"} :
        IF r = "fail" THEN MainRaise
        ELSE IF m_qi >= LinksOn(m_page, m_links)
        THEN /\ m_f' = "closed"
             /\ m_pc' = "close_browser"
             /\ UNCHANGED <<m_page, m_links, m_qi, m_count, m_si, m_written, m_out,
                            m_attempted, m_navOk, m_incomplete>>
        ELSE /\ m_pc' = "click"
             /\ m_attempted' = m_attempted \cup {m_qi + 1}
             /\ UNCHANGED <<m_page, m_links, m_qi, m_count, m_si, m_f, m_written,
                            m_out, m_navOk, m_incomplete>>

\* await cur_links[qi].click(), wait_for_load_state, wait_for_timeout: the
\* question page is shown.
MainClick ==
    /\ m_pc = "click"
    /\ \E r \in {"ok", "fail"} :
        IF r = "fail" THEN MainRaise
        ELSE /\ m_pc' = "wait_sel" /\ m_page' = "question"
             /\ UNCHANGED <<m_links, m_qi, m_count, m_si, m_f, m_written, m_out,
                            m_attempted, m_navOk, m_incomplete>>

\* await page.wait_for_selector(...) inside try: on a timeout the skip is
\* printed and the loop continues, the page still showing the question.
MainWaitSelector ==
    /\ m_pc = "wait_sel"
    /\ \E r \in {"ok", "fail"} :
        IF r = "fail"
        THEN /\ MainNextIteration(Append(m_out, L("Skipping", m_qi + 1)))
             /\ UNCHANGED m_page
        ELSE /\ m_pc' = "count"
             /\ m_navOk' = m_navOk \cup {m_qi + 1}
             /\ UNCHANGED <<m_page, m_links, m_qi, m_count, m_si, m_f, m_written,
                            m_out, m_attempted, m_incomplete>>

\* count = await blocks.count()
MainCountBlocks ==
    /\ m_pc = "count"
    /\ \E r \in {"ok", "fail"}, c \in 1..MaxBlocks :
        IF r = "fail" THEN MainRaise
        ELSE /\ m_count' = c /\ m_si' = 0
             /\ m_out' = Append(m_out, L("FoundStudents", c))
             /\ m_pc' = "block"
             /\ UNCHANGED <<m_page, m_links, m_qi, m_f, m_written, m_attempted, m_navOk, m_incomplete>>

\* One pass of the student loop of main; after the last block the question
\* is reported finished and page.goto(REPORT_URL) issued.
MainReadBlock ==
    /\ m_pc = "block"
    /\ \E shape \in BlockShapes, mk \in MarkTexts, wrote \in BOOLEAN :
        /\ shape = Fields \/ m_incomplete < MaxIncomplete
        /\ IF ~wrote THEN MainRaise
           ELSE
             /\ m_incomplete' = IF shape = Fields THEN m_incomplete ELSE m_incomplete + 1
             /\ m_written' = WriteRow(m_written,
                                      Line(MainRow(m_qi + 1, shape, m_si, mk), m_qi + 1, m_si, shape))
             /\ m_si' = m_si + 1
             /\ m_out' = IF m_si + 1 < m_count THEN Append(m_out, L("Row", m_qi + 1))
                         ELSE m_out \o <<L("Row", m_qi + 1), L("Finished", m_qi + 1)>>
             /\ m_pc' = IF m_si + 1 < m_count THEN "block" ELSE "nav_back"
             /\ UNCHANGED <<m_page, m_links, m_qi, m_count, m_f, m_attempted, m_navOk>>

\* await page.goto(REPORT_URL) and wait_for_timeout; then the next iteration.
MainNavBack ==
    /\ m_pc = "nav_back"
    /\ \E r \in {"ok", "fail"} :
        IF r = "fail" THEN MainRaise
        ELSE /\ MainNextIteration(m_out)
             /\ m_page' = "report"

\* await browser.close(); "Done" is printed when a file was written.
MainCloseBrowser ==
    /\ m_pc = "close_browser"
    /\ m_pc' = "done"
    /\ m_out' = IF m_f = "closed" THEN Append(m_out, L("Done", 0)) ELSE m_out
    /\ UNCHANGED <<m_page, m_links, m_qi, m_count, m_si, m_f, m_written,
                   m_attempted, m_navOk, m_incomplete>>

\* ============================================ the start button, pressed twice
\* Each press of the start button calls start(), which awaits
\* choose_and_extract: a run.  The button is never disabled and no flag is
\* looked at, so a press while an earlier run is suspended begins another
\* run on the same event loop.  Here a run is followed from await to await
\* with only what the runs share: the globals pw, browser, ctx and page
\* (assigned together), the browser sessions behind them, and the output
\* file named in the one input field.
Runs == {1, 2}

InitRuns ==
    /\ page = 0 /\ sessions = {}
    /\ run_pc = [r \in Runs |-> "idle"]
    /\ run_on = [r \in Runs |-> 0]
    /\ run_exposed = [r \in Runs |-> 0]
    /\ out_open = {}

\* A call awaited on the page p can return only while p's session is open.
CallResults(p) == IF p \in sessions THEN {"ok", "fail"} ELSE {"fail"}

\* The awaits of extract_feedback.
ExtractPcs == {"goto_report", "discover", "store_progress", "question", "complete_eval"}

\* The awaits at which a page navigation is pending.
NavPcs == {"goto_login", "to_report", "goto_report", "question"}

\* The next call is issued on whatever the global page is now.
RunIssue(r, next) ==
    /\ run_pc' = [run_pc EXCEPT ![r] = next]
    /\ run_on' = [run_on EXCEPT ![r] = page]

\* An exception inside the try of choose_and_extract (and of
\* extract_feedback, whose with block closes the file): it is logged,
\* re-raised, and the finally block entered.
RunRaise(r) ==
    /\ run_pc' = [run_pc EXCEPT ![r] = "finally"]
    /\ run_on' = [run_on EXCEPT ![r] = 0]
    /\ out_open' = out_open \ {r}
    /\ UNCHANGED <<page, sessions, run_exposed>>

\* start() and choose_and_extract up to add_init_script: Playwright, a
\* browser, a context and a page are created and assigned to the globals.
RunStart(r) ==
    /\ run_pc[r] = "idle"
    /\ page' = r
    /\ sessions' = sessions \cup {r}
    /\ run_pc' = [run_pc EXCEPT ![r] = "init_script"]
    /\ run_on' = [run_on EXCEPT ![r] = r]
    /\ UNCHANGED <<run_exposed, out_open>>

\* await ctx.add_init_script(...), outside the try; then
\* page.expose_function is issued on the global page.
RunAddInitScript(r) ==
    /\ run_pc[r] = "init_script"
    /\ \E res \in CallResults(run_on[r]) :
        IF res = "ok" THEN RunIssue(r, "expose")
        ELSE /\ run_pc' = [run_pc EXCEPT ![r] = "closed"]
             /\ run_on' = [run_on EXCEPT ![r] = 0]
    /\ UNCHANGED <<page, sessions, run_exposed, out_open>>

\* await page.expose_function and await page.goto(EXAMSYS_BASE); the run
\* then waits for the operator to press "This is my exam" on the page the
\* function was exposed on.
RunSetup(r) ==
    /\ run_pc[r] \in {"expose", "goto_login"}
    /\ \E res \in CallResults(run_on[r]) :
        IF res = "fail" THEN RunRaise(r)
        ELSE /\ IF run_pc[r] = "expose"
                THEN /\ RunIssue(r, "goto_login")
                     /\ run_exposed' = [run_exposed EXCEPT ![r] = run_on[r]]
                ELSE /\ run_pc' = [run_pc EXCEPT ![r] = "await_exam"]
                     /\ run_on' = [run_on EXCEPT ![r] = 0]
                     /\ UNCHANGED run_exposed
             /\ UNCHANGED <<page, sessions, out_open>>

\* chosen_url = await exam_future: the operator pressed the button on the
\* page the run exposed its function on; page.click is issued on the global
\* page.
RunExamChosen(r) ==
    /\ run_pc[r] = "await_exam"
    /\ run_exposed[r] \in sessions
    /\ RunIssue(r, "to_report")
    /\ UNCHANGED <<page, sessions, run_exposed, out_open>>

\* The clicks that reach the report page; extract_feedback is entered and
\* page.goto(report_url) issued on the global page.
RunToReport(r) ==
    /\ run_pc[r] = "to_report"
    /\ \E res \in CallResults(run_on[r]) :
        IF res = "fail" THEN RunRaise(r)
        ELSE RunIssue(r, "goto_report") /\ UNCHANGED <<page, sessions, run_exposed, out_open>>

\* await page.goto(report_url), page.title(), eval_on_selector_all: the
\* question links are found and page.evaluate issued.
RunDiscover(r) ==
    /\ run_pc[r] \in {"goto_report", "discover"}
    /\ \E res \in CallResults(run_on[r]) :
        IF res = "fail" THEN RunRaise(r)
        ELSE /\ RunIssue(r, IF run_pc[r] = "goto_report" THEN "discover"
                            ELSE "store_progress")
             /\ UNCHANGED <<page, sessions, run_exposed, out_open>>

\* await page.evaluate; the output file is opened for writing, the header
\* written, and the first question's page calls issued.
RunOpenOutput(r) ==
    /\ run_pc[r] = "store_progress"
    /\ \E res \in CallResults(run_on[r]) :
        IF res = "fail" THEN RunRaise(r)
        ELSE /\ RunIssue(r, "question")
             /\ out_open' = out_open \cup {r}
             /\ UNCHANGED <<page, sessions, run_exposed>>

\* One question of the loop: its page calls and row writes; then either the
\* next question, or the with block is left and the final page.evaluate
\* issued.
RunQuestion(r) ==
    /\ run_pc[r] = "question"
    /\ \E res \in CallResults(run_on[r]), more \in BOOLEAN :
        IF res = "fail" THEN RunRaise(r)
        ELSE IF more
        THEN RunIssue(r, "question") /\ UNCHANGED <<page, sessions, run_exposed, out_open>>
        ELSE /\ RunIssue(r, "complete_eval")
             /\ out_open' = out_open \ {r}
             /\ UNCHANGED <<page, sessions, run_exposed>>

\* await page.evaluate ("Extraction Complete"); extract_feedback returns and
\* the finally block is entered.
RunComplete(r) ==
    /\ run_pc[r] = "complete_eval"
    /\ \E res \in CallResults(run_on[r]) :
        IF res = "fail" THEN RunRaise(r)
        ELSE /\ run_pc' = [run_pc EXCEPT ![r] = "finally"]
             /\ run_on' = [run_on EXCEPT ![r] = 0]
             /\ UNCHANGED <<page, sessions, run_exposed, out_open>>

\* finally: the globals ctx, browser and pw are closed, whichever run
\* created them.
RunFinally(r) ==
    /\ run_pc[r] = "finally"
    /\ sessions' = sessions \ {page}
    /\ run_pc' = [run_pc EXCEPT ![r] = "closed"]
    /\ UNCHANGED <<page, run_on, run_exposed, out_open>>

\* ==================================================== the pure functions
\* No call of a pure function is being looked at.
InitPure ==
    /\ p_pc = "off" /\ mark = <<>> /\ mark_ret = <<>>
    /\ href = <<>> /\ base = <<>> /\ url = <<>> /\ url2 = <<>>

\* A mark text is about to be given to parse_mark_to_decimal.
InitMark ==
    /\ p_pc = "call" /\ mark \in MarkInputs /\ mark_ret = <<>>
    /\ href = <<>> /\ base = <<>> /\ url = <<>> /\ url2 = <<>>

\* An href and a base are about to be given to absolutize.
InitUrl ==
    /\ p_pc = "call" /\ href \in HrefsOf(MaxParts) /\ base \in Bases
    /\ url = <<>> /\ url2 = <<>>
    /\ mark = <<>> /\ mark_ret = <<>>

\* mark = parse_mark_to_decimal(mark_raw)
ParseMark ==
    /\ p_pc = "call"
    /\ mark_ret' = parse_mark_to_decimal(mark)
    /\ p_pc' = "returned"
    /\ UNCHANGED <<mark, href, base, url, url2>>

\* absolutize(h, base)
Absolutize ==
    /\ p_pc = "call"
    /\ url' = absolutize(href, base)
    /\ p_pc' = "returned"
    /\ UNCHANGED <<mark, mark_ret, href, base, url2>>

\* absolutize applied to its own result
AbsolutizeAgain ==
    /\ p_pc = "returned"
    /\ url2' = absolutize(url, base)
    /\ p_pc' = "again"
    /\ UNCHANGED <<mark, mark_ret, href, base, url>>

\* ================================================================= specs
Init == InitGui /\ InitMain /\ InitPure /\ InitRuns

Next ==
    \/ Start /\ UNCHANGED <<mainVars, pureVars, runVars>>
    \/ AddInitScript /\ UNCHANGED <<mainVars, pureVars, runVars>>
    \/ ExposeFunction /\ UNCHANGED <<mainVars, pureVars, runVars>>
    \/ GotoLogin /\ UNCHANGED <<mainVars, pureVars, runVars>>
    \/ ExamChosen /\ UNCHANGED <<mainVars, pureVars, runVars>>
    \/ NavigateToReport /\ UNCHANGED <<mainVars, pureVars, runVars>>
    \/ GotoReport /\ UNCHANGED <<mainVars, pureVars, runVars>>
    \/ Discover /\ UNCHANGED <<mainVars, pureVars, runVars>>
    \/ StoreProgress /\ UNCHANGED <<mainVars, pureVars, runVars>>
    \/ ProgressEval /\ UNCHANGED <<mainVars, pureVars, runVars>>
    \/ GotoQuestion /\ UNCHANGED <<mainVars, pureVars, runVars>>
    \/ WaitSelector /\ UNCHANGED <<mainVars, pureVars, runVars>>
    \/ CountBlocks /\ UNCHANGED <<mainVars, pureVars, runVars>>
    \/ ReadBlock /\ UNCHANGED <<mainVars, pureVars, runVars>>
    \/ NavBack /\ UNCHANGED <<mainVars, pureVars, runVars>>
    \/ Sleep /\ UNCHANGED <<mainVars, pureVars, runVars>>
    \/ CompleteEval /\ UNCHANGED <<mainVars, pureVars, runVars>>
    \/ FinallyCtx /\ UNCHANGED <<mainVars, pureVars, runVars>>
    \/ FinallyBrowser /\ UNCHANGED <<mainVars, pureVars, runVars>>
    \/ FinallyPw /\ UNCHANGED <<mainVars, pureVars, runVars>>
    \/ ShutdownRequest /\ UNCHANGED <<mainVars, pureVars, runVars>>
    \/ ShutdownClose /\ UNCHANGED <<mainVars, pureVars, runVars>>
    \/ ShutdownExit /\ UNCHANGED <<mainVars, pureVars, runVars>>

\* The GUI tool.
Spec == Init /\ [][Next]_vars

NextMain ==
    \/ MainGotoReport /\ UNCHANGED <<guiVars, pureVars, runVars>>
    \/ MainDiscover /\ UNCHANGED <<guiVars, pureVars, runVars>>
    \/ MainCurLinks /\ UNCHANGED <<guiVars, pureVars, runVars>>
    \/ MainClick /\ UNCHANGED <<guiVars, pureVars, runVars>>
    \/ MainWaitSelector /\ UNCHANGED <<guiVars, pureVars, runVars>>
    \/ MainCountBlocks /\ UNCHANGED <<guiVars, pureVars, runVars>>
    \/ MainReadBlock /\ UNCHANGED <<guiVars, pureVars, runVars>>
    \/ MainNavBack /\ UNCHANGED <<guiVars, pureVars, runVars>>
    \/ MainCloseBrowser /\ UNCHANGED <<guiVars, pureVars, runVars>>

\* The standalone script.
SpecMain == Init /\ [][NextMain]_vars

NextMark == ParseMark /\ UNCHANGED <<guiVars, mainVars, runVars>>

\* parse_mark_to_decimal, called on every mark text of the alphabet.
MarkInit == InitGui /\ InitMain /\ InitMark /\ InitRuns
SpecMark == MarkInit /\ [][NextMark]_vars

NextUrl ==
    \/ Absolutize /\ UNCHANGED <<guiVars, mainVars, runVars>>
    \/ AbsolutizeAgain /\ UNCHANGED <<guiVars, mainVars, runVars>>

\* absolutize, called on an href and a base and then on its own result.
UrlInit == InitGui /\ InitMain /\ InitUrl /\ InitRuns
SpecUrl == UrlInit /\ [][NextUrl]_vars

NextRuns ==
    \/ \E r \in Runs : RunStart(r) /\ UNCHANGED <<guiVars, mainVars, pureVars>>
    \/ \E r \in Runs : RunAddInitScript(r) /\ UNCHANGED <<guiVars, mainVars, pureVars>>
    \/ \E r \in Runs : RunSetup(r) /\ UNCHANGED <<guiVars, mainVars, pureVars>>
    \/ \E r \in Runs : RunExamChosen(r) /\ UNCHANGED <<guiVars, mainVars, pureVars>>
    \/ \E r \in Runs : RunToReport(r) /\ UNCHANGED <<guiVars, mainVars, pureVars>>
    \/ \E r \in Runs : RunDiscover(r) /\ UNCHANGED <<guiVars, mainVars, pureVars>>
    \/ \E r \in Runs : RunOpenOutput(r) /\ UNCHANGED <<guiVars, mainVars, pureVars>>
    \/ \E r \in Runs : RunQuestion(r) /\ UNCHANGED <<guiVars, mainVars, pureVars>>
    \/ \E r \in Runs : RunComplete(r) /\ UNCHANGED <<guiVars, mainVars, pureVars>>
    \/ \E r \in Runs : RunFinally(r) /\ UNCHANGED <<guiVars, mainVars, pureVars>>

\* The GUI tool with its start button pressed up to twice.
SpecRuns == Init /\ [][NextRuns]_vars

\* =============================================================== claims
RECURSIVE SumCounts(_)
SumCounts(S) == IF S = {} THEN 0
                ELSE LET x == CHOOSE y \in S : TRUE
                     IN  x[2] + SumCounts(S \ {x})

\* data rows handed to the writer, all and for one question
RowsWritten == Len(DataRows(written))
RowsOf(w, q) == Len(SelectSeq(DataRows(w), LAMBDA l : l.q = q))

\* questions whose navigation or readiness wait failed
FailedQs == {q \in 1..total_qs : \E i \in 1..Len(log_box) : log_box[i] = L("Failed", q)}

\* the coroutine is between two questions, or past the loop
AtBoundary == pc \in {"progress_eval", "goto_q", "wait_sel", "count", "nav_back",
                      "sleep", "complete_eval"} \/ ret = "elapsed"

\* C1 as stated: at every point of a run the number of data rows written
\* equals the sum of the block counts of the questions whose navigation and
\* readiness wait succeeded so far.
C1_RowsEqualCountsAlways == RowsWritten = SumCounts(counted)

\* C1 as amended: the rows written never exceed the sum of the block counts
\* of the questions navigated to so far; they equal it whenever the run is
\* between two questions and when it has completed; each counted question
\* that is over has exactly its count of rows; a failed question has none.
C1_RowsMatchCounts ==
    /\ RowsWritten <= SumCounts(counted)
    /\ AtBoundary => RowsWritten = SumCounts(counted)
    /\ \A x \in counted :
          /\ RowsOf(written, x[1]) <= x[2]
          /\ (x[1] < qi \/ AtBoundary) => RowsOf(written, x[1]) = x[2]
    /\ \A q \in FailedQs : RowsOf(written, q) = 0 /\ q \notin navOk
    /\ \A q \in 1..total_qs : RowsOf(written, q) > 0 => q \in navOk

\* C1 witness: a completed run with one failed question and two rows
C1_Witness == ret = "elapsed" /\ FailedQs # {} /\ RowsWritten >= 2

\* C2 (standalone script): when main is over without an exception, every
\* discovered question was navigated to, each question whose readiness wait
\* failed was reported skipped, and each that loaded has its rows.
C2_MainAttemptsEveryQuestion ==
    (m_pc = "done" /\ m_links > 0) =>
        \A q \in 1..m_links :
            /\ q \in m_attempted
            /\ q \notin m_navOk => \E i \in 1..Len(m_out) : m_out[i] = L("Skipping", q)
            /\ q \in m_navOk => RowsOf(m_written, q) > 0

\* C2 (GUI, for comparison): a run of extract_feedback that returns has
\* navigated to every discovered question and logged each failed one.
GuiAttemptsEveryQuestion ==
    ret = "elapsed" =>
        \A q \in 1..total_qs :
            /\ q \in attempted
            /\ q \notin navOk => q \in FailedQs
            /\ q \in navOk => RowsOf(written, q) > 0

\* C3: the data rows are in discovery order: the question ordinal never
\* decreases from one row to the next, the question_number column shows it,
\* and the rows of one question are its blocks 0, 1, 2, ... in that order.
C3_RowsInDiscoveryOrder ==
    \A i \in 2..Len(written) :
        /\ written[i].cells[1] = ToString(written[i].q)
        /\ written[i].blk = Len(SelectSeq(SubSeq(written, 2, i - 1),
                                          LAMBDA l : l.q = written[i].q))
        /\ \A j \in i + 1..Len(written) :
              \/ written[i].q < written[j].q
              \/ written[i].q = written[j].q /\ written[i].blk < written[j].blk

\* C3 witness: two rows of one question followed by a row of a later one
C3_Witness ==
    /\ Len(written) >= 4
    /\ written[2].q = written[3].q
    /\ written[3].q < written[4].q

\* The six cells of a data row hold, in this order, the question ordinal,
\* the student id, the label, the mark, the comment and the answer.
InContractOrder(cells) ==
    /\ Len(cells) = 6
    /\ cells[2] \in {"", IdText}
    /\ cells[3] \in {LabelText} \cup {"Student " \o ToString(n) : n \in 1..MaxBlocks}
    /\ cells[4] \in {""} \cup {Join(parse_mark_to_decimal(Strip(mk))) : mk \in MarkTexts}
                         \cup {Join(Strip(mk)) : mk \in MarkTexts}
    /\ cells[5] \in {"", CommentText}
    /\ cells[6] \in {"", AnswerText}

\* C4 (standalone script): the first line of the CSV is the header of the
\* contract, question_number, student_id, student_label, mark, comment,
\* student_answer, and every data row has its cells in that order.
C4_MainColumnContract ==
    Len(m_written) > 0 =>
        /\ m_written[1].cells = Header
        /\ \A i \in 2..Len(m_written) : InContractOrder(m_written[i].cells)

\* C4 (GUI, for comparison): the same of the file extract_feedback writes.
GuiColumnContract ==
    Len(written) > 0 =>
        /\ written[1].cells = Header
        /\ \A i \in 2..Len(written) : InContractOrder(written[i].cells)

\* C5: when the report page shows no question link, no question page is
\* navigated to, no row is written, "No questions found" is logged, and
\* choose_and_extract ends the case without an exception propagating.
C5_NoQuestionsIsNotAnException ==
    ret = "None" =>
        /\ attempted = {}
        /\ RowsWritten = 0
        /\ \E i \in 1..Len(log_box) : log_box[i] = L("NoQuestions", 0)
        /\ ~raised

\* C5, the part the code keeps: nothing navigated, nothing written, the
\* message logged.
NoQuestionsWritesNothing ==
    ret = "None" =>
        /\ attempted = {}
        /\ RowsWritten = 0 /\ f = "none"
        /\ \E i \in 1..Len(log_box) : log_box[i] = L("NoQuestions", 0)

\* extract_feedback raises in this step, from inside the per-question loop
RaisesInLoop == pc \in LoopPcs /\ ret # "raised" /\ ret' = "raised"

\* C6: when an exception leaves the per-question loop after r rows were
\* written, the run has failed (the exception logged and re-raised), the
\* file handle is closed, and the file on disk is the header followed by
\* exactly those r rows, in order; and it stays so.
C6_FailedRunKeepsRows ==
    /\ [][RaisesInLoop =>
            /\ raised' /\ pc' = "fin_ctx"
            /\ app_log'[Len(app_log) + 1] = L("ExcExtraction", 0)
            /\ f' = "closed"
            /\ written' = written
            /\ DiskLines' = written
            /\ written[1].cells = Header]_vars
    /\ []((ret = "raised" /\ raisedAt \in LoopPcs) =>
            /\ raised /\ f = "closed"
            /\ DiskLines = written)

\* C6 witness: the loop was left by an exception after two rows, of which
\* none had reached the disk before
C6_Witness == ret = "raised" /\ raisedAt \in LoopPcs /\ RowsWritten >= 2

\* What a block's row must show: each absent element gives its fallback.
RowMatchesBlock(l) ==
    /\ l.cells[2] = (IF "id" \in l.shape THEN IdText ELSE "")
    /\ l.cells[3] = (IF "label" \in l.shape THEN LabelText
                     ELSE "Student " \o ToString(l.blk + 1))
    /\ ("mark" \notin l.shape) => l.cells[4] = ""
    /\ l.cells[5] = (IF "comment" \in l.shape THEN CommentText ELSE "")
    /\ l.cells[6] = (IF "answer" \in l.shape THEN AnswerText ELSE "")

\* C7 (GUI): whatever elements a block lacks, the run is not aborted by the
\* absence and the block's row shows the fallbacks: "Student N" for the
\* label and the empty string for identifier, answer, mark and comment.
C7_AbsentElementsNeverAbort ==
    /\ cause # "absent"
    /\ \A i \in 2..Len(written) : RowMatchesBlock(written[i])

\* C7 (standalone script, for comparison): every block read gives one row
\* showing the fallbacks (the script's columns are id, label, answer, mark,
\* comment).
MainRowsShowFallbacks ==
    \A i \in 2..Len(m_written) :
        LET l == m_written[i]
        IN  /\ l.cells[2] = (IF "id" \in l.shape THEN IdText ELSE "")
            /\ l.cells[3] = (IF "label" \in l.shape THEN LabelText
                             ELSE "Student " \o ToString(l.blk + 1))
            /\ l.cells[4] = (IF "answer" \in l.shape THEN AnswerText ELSE "")
            /\ ("mark" \notin l.shape) => l.cells[5] = ""
            /\ l.cells[6] = (IF "comment" \in l.shape THEN CommentText ELSE "")

\* C8 as stated: once the loop has begun, only a failure of the output sink
\* ends the run before every question has been attempted.
C8_OnlySinkFailureEndsLoop ==
    (ret = "raised" /\ raisedAt \in LoopPcs) => cause = "sink"

\* C8 as amended: inside the loop only a failure of page.goto or
\* wait_for_selector for the question page is recovered (logged, next
\* question); the loop is left early only by an exception, raised by one of
\* the other awaited steps (progress-bar evaluate, blocks.count(), a block's
\* reads and write, the navigation back), which is logged and re-raised and
\* after which no further question is attempted; a run that returns has
\* attempted every question.
C8_OnlyNavigationIsRecovered ==
    /\ [][(pc \in {"goto_q", "wait_sel"} /\ pc' # pc /\ alive') =>
             /\ ret' = ret
             /\ pc' \in {"wait_sel", "count", "progress_eval", "complete_eval"}
             /\ (pc' \in {"progress_eval", "complete_eval"} =>
                    log_box'[Len(log_box) + 1] = L("Failed", qi))]_vars
    /\ [][(pc \in LoopPcs /\ pc' \notin LoopPcs \cup {"complete_eval"}) =>
             /\ RaisesInLoop /\ raised'
             /\ pc \in {"progress_eval", "count", "block", "nav_back"}
             /\ cause' \in {"playwright", "absent", "sink"}]_vars
    /\ [][ret = "raised" => attempted' = attempted /\ written' = written]_vars
    /\ [](ret = "elapsed" => attempted = 1..total_qs)

\* C8 witness: a failed navigation was skipped and a later question read,
\* and in the same run the loop was then left by an exception
C8_Witness ==
    /\ ret = "raised" /\ raisedAt = "nav_back"
    /\ FailedQs # {} /\ RowsWritten > 0

\* the run is over: choose_and_extract is in or past its finally block, or
\* the process has exited
RunOver == pc \in {"fin_ctx", "fin_browser", "fin_pw", "closed"} \/ ~alive

\* C9 as stated: a stop requested during the per-question loop makes the
\* run go to Finalizing: it ends normally, the sink closed with all the rows
\* written so far.
C9_StopFinalizesGracefully ==
    (stopInLoop /\ RunOver) => (ret = "elapsed" /\ f = "closed" /\ DiskLines = written)

\* C9 as amended: the loop checks no cancellation flag.  Close App pressed
\* during the loop closes the browser context; the run then never finalizes
\* normally: it ends with an exception, logged and re-raised (the file closed
\* with the rows written so far), or is cut short by the process exit.
C9_StopNeverFinalizes ==
    /\ stopInLoop => (ctx = "closed" /\ ret # "elapsed")
    /\ (stopInLoop /\ pc \in {"fin_ctx", "fin_browser", "fin_pw", "closed"}) =>
          (ret = "raised" /\ raised /\ f = "closed" /\ DiskLines = written)

\* C9 witness: stopped in the loop with a row written, the run ended by an
\* exception
C9_Witness == stopInLoop /\ ret = "raised" /\ RowsWritten > 0 /\ pc = "closed"

\* C10: after a run that completes, the summary shows as many questions as
\* links were discovered and as many rows as data rows were written.
C10_SummaryMatchesRun ==
    ret = "elapsed" =>
        /\ summary_labels.questions = ToString(total_qs)
        /\ summary_labels.rows = ToString(RowsWritten)

\* C10, what the code shows: the question count is right, and the row count
\* is two more than the rows written (the "Exam selected" and "Found n
\* questions" lines of the log match the row pattern as well).
SummaryRowsOverCounted ==
    ret = "elapsed" =>
        /\ summary_labels.questions = ToString(total_qs)
        /\ summary_labels.rows = ToString(RowsWritten + 2)

\* ------------------------------------------------- the mark normaliser
\* The mark texts of the normaliser's rules, recognised on the text itself.
Blank(m) == \A i \in 1..Len(m) : m[i] = " "

IntegerThenHalf(m) ==
    Len(m) >= 2 /\ m[Len(m)] = "½" /\ IsDigits(SubSeq(m, 1, Len(m) - 1))

DigitsSlashDigits(m, i) ==
    /\ i \in 2..(Len(m) - 1) /\ m[i] = "/"
    /\ IsDigits(SubSeq(m, 1, i - 1)) /\ IsDigits(SubSeq(m, i + 1, Len(m)))

PlainNumber(m) ==
    \/ IsDigits(m)
    \/ \E i \in 2..(Len(m) - 1) :
          m[i] = "." /\ IsDigits(SubSeq(m, 1, i - 1)) /\ IsDigits(SubSeq(m, i + 1, Len(m)))

\* C11: parse_mark_to_decimal follows the normaliser's rules: an empty or
\* blank text gives "", the half glyph alone gives "0.5", an integer followed
\* by the half glyph gives the integer plus 0.5, digits/digits with a
\* non-zero denominator gives the quotient as a decimal string, and a plain
\* integer or decimal is returned unchanged.
C11_NormalizerRules ==
    p_pc = "returned" =>
        /\ Blank(mark) => mark_ret = <<>>
        /\ mark = <<"½">> => mark_ret = <<"0", ".", "5">>
        /\ IntegerThenHalf(mark) =>
              mark_ret = DigitsOf(IntOf(SubSeq(mark, 1, Len(mark) - 1))) \o <<".", "5">>
        /\ \A i \in 1..Len(mark) :
              DigitsSlashDigits(mark, i) /\ IntOf(SubSeq(mark, i + 1, Len(mark))) # 0 =>
                  mark_ret = FloatStr(IntOf(SubSeq(mark, 1, i - 1)),
                                      IntOf(SubSeq(mark, i + 1, Len(mark))))
        /\ PlainNumber(mark) => mark_ret = mark

\* "3/2" was given and "1.5" returned.
C11_Witness ==
    p_pc = "returned" /\ mark = <<"3", "/", "2">> /\ mark_ret = <<"1", ".", "5">>

\* "2½" gives "2.5", and "4"-like plain integers come back as they are.
C11_HalfWitness ==
    p_pc = "returned" /\ mark = <<"2", "½">> /\ mark_ret = <<"2", ".", "5">>

\* The cases in which the normaliser falls back: the stripped text has no
\* recognised numeric pattern, or is a fraction with a zero denominator, or
\* has the glyph with a rest that float() rejects.
FailSoftCase(m) ==
    LET s == Strip(m)
        rest == Remove(Strip(Remove(s, "½")), " ")
        hasGlyph == \E i \in 1..Len(s) : s[i] = "½"
    IN  /\ s # <<>>
        /\ \/ /\ ~hasGlyph /\ ~PlainNumber(s)
              /\ \A i \in 1..Len(s) :
                    ~(/\ s[i] = "/"
                      /\ IsDigits(RStrip(SubSeq(s, 1, i - 1)))
                      /\ IsDigits(LStrip(SubSeq(s, i + 1, Len(s)))))
           \/ /\ ~hasGlyph
              /\ \E i \in 1..Len(s) :
                    /\ s[i] = "/"
                    /\ IsDigits(RStrip(SubSeq(s, 1, i - 1)))
                    /\ IsDigits(LStrip(SubSeq(s, i + 1, Len(s))))
                    /\ IntOf(LStrip(SubSeq(s, i + 1, Len(s)))) = 0
           \/ hasGlyph /\ rest # <<>> /\ ~IsFloatLiteral(rest)

\* C12: parse_mark_to_decimal is fail-soft: whenever the text has no
\* recognised numeric pattern, has a zero denominator, or makes parsing
\* raise, the value returned is the raw text given, character for character,
\* leading and trailing whitespace included.
C12_FallbackReturnsRawInput ==
    p_pc = "returned" /\ FailSoftCase(mark) => mark_ret = mark

\* What the code returns in those cases is the text with its leading and
\* trailing whitespace stripped.
FallbackReturnsStrippedInput ==
    p_pc = "returned" /\ FailSoftCase(mark) => mark_ret = Strip(mark)

\* ------------------------------------------------------ the URL resolver
\* C13: absolutize is idempotent, for any href and any base: applied to its
\* own result it returns that result.
C13_AbsolutizeIdempotent ==
    p_pc = "again" => url2 = url

\* With a base that begins with "http" (as EXAMSYS_BASE does) the second
\* application returns the first result.
IdempotentOnHttpBase ==
    p_pc = "again" /\ StartsWith(base, <<"h", "t", "t", "p">>) => url2 = url

\* An href that begins with a scheme.
SchemePrefixed(h) ==
    \/ StartsWith(h, <<"h", "t", "t", "p", ":">>)
    \/ StartsWith(h, <<"f", "t", "p", ":">>)

\* The resolver's rules, in priority order, for an href h and a base b
\* without trailing slash.
Resolved(h, b) ==
    IF SchemePrefixed(h) THEN h
    ELSE IF StartsWith(h, <<"/">>) THEN b \o h
    ELSE IF StartsWith(h, <<".", ".", "/">>)
         THEN b \o <<"/", "r", "e", "p", "o", "r", "t", "s", "/">> \o SubSeq(h, 4, Len(h))
    ELSE IF StartsWith(h, <<"r", "e", "p", "o", "r", "t", "s", "/">>) THEN b \o <<"/">> \o h
    ELSE IF StartsWith(h, <<"t", "e", "x", "t", "b", "o", "x", "_",
                            "m", "a", "r", "k", "i", "n", "g">>)
         THEN b \o <<"/", "r", "e", "p", "o", "r", "t", "s", "/">> \o h
    ELSE b \o <<"/">> \o h

\* An href as an anchor carries it: not empty, no whitespace around it.
PlainHref(h) == h # <<>> /\ Strip(h) = h

\* C14: absolutize applies the resolver's rules in priority order for every
\* href: a scheme-prefixed URL unchanged, /p under the base, ../p under
\* /reports/ with p kept as written after the one leading ../, reports/...
\* under the base, a marking-page filename under /reports/, anything else
\* under the base.
C14_ResolverRules ==
    p_pc \in {"returned", "again"} /\ PlainHref(href) =>
        url = Resolved(href, RStripChars(base, {"/"}))

\* What the code does: the rules hold for every href that neither begins
\* with a scheme other than http nor continues, after its leading ../, with
\* a dot or a slash.
ResolverRulesAsCoded ==
    /\ p_pc \in {"returned", "again"} /\ PlainHref(href)
    /\ ~StartsWith(href, <<"f", "t", "p", ":">>)
    /\ StartsWith(href, <<"h", "t", "t", "p">>) => SchemePrefixed(href)
    /\ StartsWith(href, <<".", ".", "/">>) =>
          Len(href) = 3 \/ href[4] \notin {".", "/"}
    => url = Resolved(href, RStripChars(base, {"/"}))

\* ------------------------------------------------ marks in the output
\* The column of a file whose header names it "mark".
MarkColumn(w) == CHOOSE i \in 1..Len(w[1].cells) : w[1].cells[i] = "mark"

MarksNormalized(w) ==
    \A i \in 2..Len(w) :
        \E mk \in MarkTexts : w[i].cells[MarkColumn(w)] = MarkOf(w[i].shape, mk)

\* C15: every mark written to an output CSV has passed through the mark
\* normaliser: the mark field of each data row is parse_mark_to_decimal of
\* the selected option's text, or "" without a mark control.  Here for the
\* rows the standalone script writes.
C15_MainMarksAreNormalized == MarksNormalized(m_written)

\* The rows the GUI extractor writes have normalised marks.
GuiMarksAreNormalized == MarksNormalized(written)

\* --------------------------------------------------- the sink's failures
\* C16: if the output file cannot be created or opened, the run is aborted
\* before any page navigation of the run (no page.goto of the report page
\* or of a question page precedes the failed open); if a write fails later,
\* the run is aborted at that write.
C16_SinkFailureAbortsBeforeNavigation ==
    /\ cause = "sink" /\ raisedAt = "store_progress" =>
          ~reportLoaded /\ attempted = {}
    /\ cause = "sink" /\ raisedAt = "block" =>
          ret = "raised" /\ pc \notin LoopPcs /\ f = "closed"

\* A failed write ends the run at that write; a failed open ends it with the
\* report page already loaded.
SinkFailureAbortsAfterReport ==
    /\ cause = "sink" /\ raisedAt = "store_progress" =>
          reportLoaded /\ attempted = {} /\ f = "none"
    /\ cause = "sink" /\ raisedAt = "block" =>
          ret = "raised" /\ pc \notin LoopPcs /\ f = "closed"

\* -------------------------------------------------------- one run at a time
\* C17: at most one run drives the browsing session and writes the output
\* file at any time: a running extract_feedback uses the page created for
\* its run, no two runs have a navigation pending at once, and no two runs
\* have the output file open for writing.
C17_OneRunAtATime ==
    /\ \A r \in Runs : run_pc[r] \in ExtractPcs => run_on[r] = r
    /\ \A r1, r2 \in Runs :
          r1 # r2 => ~(run_pc[r1] \in NavPcs /\ run_pc[r2] \in NavPcs)
    /\ Cardinality(out_open) <= 1

\* Both runs have the output file open, the earlier one driving the later
\* one's page.
TwoRunsShareEverything ==
    out_open = Runs /\ \E r \in Runs : run_pc[r] = "question" /\ run_on[r] # r

\* A single run uses its own page throughout.
AloneRunUsesOwnPage ==
    \A r \in Runs :
        (\A o \in Runs \ {r} : run_pc[o] = "idle") /\ run_on[r] # 0 => run_on[r] = r

\* ------------------------------------------------------------- Close App
\* C18: if Close App is pressed while extract_feedback is in its
\* per-question loop, then after the process has exited the output file on
\* disk holds the header and every row written, and the file was closed
\* before the exit.
C18_CloseAppKeepsRows ==
    ~alive /\ stopInLoop => f = "closed" /\ flushed = Len(written)

\* If the run's pending call came back before os._exit(0), its rows are on
\* disk.
CloseAppKeepsRowsOfEndedRun ==
    ~alive /\ stopInLoop /\ ret = "raised" => f = "closed" /\ flushed = Len(written)

\* -------------------------------------------------------------- teardown
\* C19: on every exit path of choose_and_extract after Playwright, browser,
\* context and page were created (an exception of add_init_script or
\* expose_function included), the context close, the browser close and the
\* Playwright stop are each attempted exactly once, a failure of one not
\* preventing the others.
C19_TeardownOnEveryExit ==
    pc = "closed" => teardown = <<"ctx", "browser", "pw">>

\* Every exit from inside the try block attempts the three closes, once
\* each and in order; the only exit without them is an exception of
\* add_init_script.
TeardownOnExitsFromTry ==
    pc = "closed" =>
        \/ teardown = <<"ctx", "browser", "pw">>
        \/ teardown = <<>> /\ raised /\ ret = "pending"
====
